---- MODULE Spec2Model ----
(***************************************************************************)
(* Model of the Formatter-based Logger of pod32g/simple-logger:            *)
(* level filtering, message construction (fmt.Sprint), the built-in and    *)
(* custom formatters with their runtime.Caller call-site capture, the      *)
(* single fmt.Fprint to the sink and process termination on FATAL.         *)
(* Strings are sequences of one-character strings, so that formatting,     *)
(* escaping and framing are computed character by character.               *)
(***************************************************************************)
EXTENDS Integers, Sequences, FiniteSets, TLC

\* ------------------------------------------------------------------------
\* Bounds of the model
\* ------------------------------------------------------------------------
\* number of Write calls issued on sinks during one run
MaxWrites == 2
\* largest LogLevel value handed to NewLogger / SetLevel (FATAL is 4)
MaxLevelValue == 5

\* ------------------------------------------------------------------------
\* LogLevel
\* ------------------------------------------------------------------------
DEBUG == 0
INFO == 1
WARN == 2
ERROR == 3
FATAL == 4

\* the levels the five level methods pass to Logger.log
Levels == {DEBUG, INFO, WARN, ERROR, FATAL}

\* values of type LogLevel a caller may hand to NewLogger / SetLevel
LevelValues == DEBUG..MaxLevelValue

logLevelToString(level) ==
  CASE level = DEBUG -> <<"D", "E", "B", "U", "G">>
    [] level = INFO -> <<"I", "N", "F", "O">>
    [] level = WARN -> <<"W", "A", "R", "N">>
    [] level = ERROR -> <<"E", "R", "R", "O", "R">>
    [] level = FATAL -> <<"F", "A", "T", "A", "L">>
    [] OTHER -> <<"U", "N", "K", "N", "O", "W", "N">>

\* ------------------------------------------------------------------------
\* Text helpers
\* ------------------------------------------------------------------------
Digit == <<"0", "1", "2", "3", "4", "5", "6", "7", "8", "9">>

RECURSIVE Itoa(_)
\* %d / default representation of a non-negative integer
Itoa(n) ==
  IF n < 10 THEN <<Digit[n + 1]>>
  ELSE Itoa(n \div 10) \o <<Digit[(n % 10) + 1]>>

RECURSIVE LastSlash(_, _)
\* index of the last path separator in s[1..i], 0 when there is none
LastSlash(s, i) ==
  IF i = 0 THEN 0
  ELSE IF s[i] = "/" THEN i
  ELSE LastSlash(s, i - 1)

\* filepath.Base for the paths runtime.Caller returns (non-empty, no
\* trailing separator): the part after the last separator
Base(path) ==
  SubSeq(path, LastSlash(path, Len(path)) + 1, Len(path))

\* ------------------------------------------------------------------------
\* fmt.Sprint: the message handed to the formatter
\* ------------------------------------------------------------------------
\* an argument of a level method: a string value or an int value
StrArg(s) == [kind |-> "string", s |-> s, n |-> 0]
IntArg(n) == [kind |-> "int", s |-> <<>>, n |-> n]

\* default textual representation (%v) of one argument
printArg(arg) ==
  IF arg.kind = "string" THEN arg.s ELSE Itoa(arg.n)

RECURSIVE doPrintSpaced(_, _)
\* a join that puts a space between any two operands (as Sprintln does)
doPrintSpaced(a, k) ==
  IF k = 0 THEN <<>>
  ELSE doPrintSpaced(a, k - 1)
       \o (IF k > 1 THEN <<" ">> ELSE <<>>)
       \o printArg(a[k])

RECURSIVE doPrint(_, _)
\* operands 1..k of the argument list: a space is added between two
\* operands when neither is a string
doPrint(a, k) ==
  IF k = 0 THEN <<>>
  ELSE doPrint(a, k - 1)
       \o (IF k > 1 /\ a[k].kind # "string" /\ a[k - 1].kind # "string"
           THEN <<" ">> ELSE <<>>)
       \o printArg(a[k])

Sprint(v) == doPrint(v, Len(v))

\* ------------------------------------------------------------------------
\* runtime.Caller
\* ------------------------------------------------------------------------
Frame(file, line) == [file |-> file, line |-> line]

\* stack is the goroutine's call stack, innermost frame first; skip 0
\* identifies the function that calls runtime.Caller
Caller(stack, skip) ==
  IF skip + 1 <= Len(stack)
  THEN [file |-> stack[skip + 1].file, line |-> stack[skip + 1].line, ok |-> TRUE]
  ELSE [file |-> <<>>, line |-> 0, ok |-> FALSE]

\* the skip both built-in formatters pass to runtime.Caller
FormatCallerSkip == 4

\* file and line a built-in formatter reports for the given stack
callSite(stack) ==
  LET c == Caller(stack, FormatCallerSkip)
  IN  IF c.ok THEN [file |-> Base(c.file), line |-> c.line]
      ELSE [file |-> Base(<<"u", "n", "k", "n", "o", "w", "n">>), line |-> 0]

\* ------------------------------------------------------------------------
\* time.Now().Format(layout) at the instant of the call
\* ------------------------------------------------------------------------
\* layout "2006-01-02 15:04:05"
NowText ==
  <<"2", "0", "2", "4", "-", "0", "1", "-", "0", "2", " ",
    "1", "5", ":", "0", "4", ":", "0", "5">>

\* layout time.RFC3339
NowRFC3339 ==
  <<"2", "0", "2", "4", "-", "0", "1", "-", "0", "2", "T",
    "1", "5", ":", "0", "4", ":", "0", "5", "Z">>

\* ------------------------------------------------------------------------
\* encoding/json as JSONFormatter uses it
\* ------------------------------------------------------------------------
\* an encoder that leaves the double quote unescaped
escapeCharNoQuote(c) ==
  CASE c = "\\" -> <<"\\", "\\">>
    [] c = "\n" -> <<"\\", "n">>
    [] c = "\t" -> <<"\\", "t">>
    [] c = "<" -> <<"\\", "u", "0", "0", "3", "c">>
    [] OTHER -> <<c>>

\* one character of a string value as json.Marshal writes it (HTML
\* escaping on, as Marshal has it)
escapeChar(c) ==
  CASE c = "\"" -> <<"\\", "\"">>
    [] c = "\\" -> <<"\\", "\\">>
    [] c = "\n" -> <<"\\", "n">>
    [] c = "\t" -> <<"\\", "t">>
    [] c = "<" -> <<"\\", "u", "0", "0", "3", "c">>
    [] OTHER -> <<c>>

RECURSIVE escapeChars(_, _)
escapeChars(s, k) ==
  IF k = 0 THEN <<>> ELSE escapeChars(s, k - 1) \o escapeChar(s[k])

\* a Go string as a JSON string literal
encodeString(s) == <<"\"">> \o escapeChars(s, Len(s)) \o <<"\"">>

\* a value of the map[string]interface{} as JSON; the encoder supports
\* strings and integers, other kinds (chan, func, ...) are the ones that
\* make json.Marshal return an error
encodeValue(v) ==
  IF v.kind = "string" THEN encodeString(v.s) ELSE Itoa(v.n)

supportedKind(v) == v.kind \in {"string", "int"}

RECURSIVE encodeMembers(_, _)
\* members 1..k of a key-sorted list of <<key, value>> pairs
encodeMembers(kvs, k) ==
  IF k = 0 THEN <<>>
  ELSE encodeMembers(kvs, k - 1)
       \o (IF k > 1 THEN <<",">> ELSE <<>>)
       \o encodeString(kvs[k][1]) \o <<":">> \o encodeValue(kvs[k][2])

\* json.Marshal of a map given as its <<key, value>> pairs in key order
\* (Marshal sorts map keys): the bytes, or an error
Marshal(kvs) ==
  IF \A k \in 1..Len(kvs) : supportedKind(kvs[k][2])
  THEN [err |-> FALSE, bytes |-> <<"{">> \o encodeMembers(kvs, Len(kvs)) \o <<"}">>]
  ELSE [err |-> TRUE, bytes |-> <<>>]

\* ------------------------------------------------------------------------
\* The formatters
\* ------------------------------------------------------------------------
\* DefaultFormatter.Format: "%s - %s:%d - [%s] %s\n"
DefaultFormat(level, message, stack) ==
  LET cs == callSite(stack)
  IN  NowText \o <<" ", "-", " ">> \o cs.file \o <<":">> \o Itoa(cs.line)
      \o <<" ", "-", " ", "[">> \o logLevelToString(level) \o <<"]", " ">>
      \o message \o <<"\n">>

\* the logEntry map of JSONFormatter.Format, in key order
logEntry(level, message, stack) ==
  LET cs == callSite(stack)
  IN  << <<<<"f", "i", "l", "e">>, StrArg(cs.file)>>,
         <<<<"l", "e", "v", "e", "l">>, StrArg(logLevelToString(level))>>,
         <<<<"l", "i", "n", "e">>, IntArg(cs.line)>>,
         <<<<"m", "e", "s", "s", "a", "g", "e">>, StrArg(message)>>,
         <<<<"t", "i", "m", "e", "s", "t", "a", "m", "p">>, StrArg(NowRFC3339)>> >>

\* the record JSONFormatter.Format returns when json.Marshal fails
jsonFallback(message) ==
  <<"{", "\"", "e", "r", "r", "o", "r", "\"", ":", " ", "\"", "f", "a",
    "i", "l", "e", "d", " ", "t", "o", " ", "f", "o", "r", "m", "a",
    "t", " ", "l", "o", "g", " ", "m", "e", "s", "s", "a", "g", "e",
    "\"", ",", " ", "\"", "m", "e", "s", "s", "a", "g", "e", "\"", ":",
    " ", "\"">> \o message \o <<"\"", "}">>

\* JSONFormatter.Format
JSONFormat(level, message, stack) ==
  LET m == Marshal(logEntry(level, message, stack))
  IN  IF m.err THEN jsonFallback(message) ELSE m.bytes

\* MyCustomFormatter.Format of the test suite: "**CUSTOM LOG** [%s] %s\n"
CustomFormat(level, message) ==
  <<"*", "*", "C", "U", "S", "T", "O", "M", " ", "L", "O", "G", "*",
    "*", " ", "[">> \o logLevelToString(level) \o <<"]", " ">>
  \o message \o <<"\n">>

\* values of the Formatter interface held by a Logger
NilFormatter == "nil"
Formatters == {"DefaultFormatter", "JSONFormatter", "MyCustomFormatter"}
BuiltinFormatters == {"DefaultFormatter", "JSONFormatter"}

\* dynamic dispatch of l.formatter.Format(level, message) for a non-nil
\* formatter f; stack is the call stack inside Format
Format(f, level, message, stack) ==
  CASE f = "DefaultFormatter" -> DefaultFormat(level, message, stack)
    [] f = "JSONFormatter" -> JSONFormat(level, message, stack)
    [] f = "MyCustomFormatter" -> CustomFormat(level, message)

\* ------------------------------------------------------------------------
\* isValidJSON of the test suite: json.Unmarshal into a map succeeds
\* ------------------------------------------------------------------------
IsSpace(c) == c \in {" ", "\n", "\t", "\r"}
HexDigits == {"0", "1", "2", "3", "4", "5", "6", "7", "8", "9",
              "a", "b", "c", "d", "e", "f", "A", "B", "C", "D", "E", "F"}
DecDigits == {"0", "1", "2", "3", "4", "5", "6", "7", "8", "9"}

RECURSIVE skipSpace(_, _)
\* first index at or after i that holds no white space
skipSpace(s, i) ==
  IF i <= Len(s) /\ IsSpace(s[i]) THEN skipSpace(s, i + 1) ELSE i

RECURSIVE scanChars(_, _)
\* i is inside a string literal: the index after its closing quote, 0 when
\* the literal is malformed
scanChars(s, i) ==
  IF i > Len(s) THEN 0
  ELSE IF s[i] = "\"" THEN i + 1
  ELSE IF s[i] = "\\"
       THEN IF i + 1 > Len(s) THEN 0
            ELSE IF s[i + 1] \in {"\"", "\\", "/", "b", "f", "n", "r", "t"}
                 THEN scanChars(s, i + 2)
            ELSE IF s[i + 1] = "u" /\ i + 5 <= Len(s)
                    /\ \A k \in 2..5 : s[i + k] \in HexDigits
                 THEN scanChars(s, i + 6)
            ELSE 0
  ELSE IF s[i] \in {"\n", "\t", "\r"} THEN 0
  ELSE scanChars(s, i + 1)

scanString(s, i) ==
  IF i <= Len(s) /\ s[i] = "\"" THEN scanChars(s, i + 1) ELSE 0

RECURSIVE scanDigits(_, _)
scanDigits(s, i) ==
  IF i <= Len(s) /\ s[i] \in DecDigits THEN scanDigits(s, i + 1) ELSE i

\* a non-negative integer literal without leading zeros
scanNumber(s, i) ==
  IF i > Len(s) \/ s[i] \notin DecDigits THEN 0
  ELSE IF s[i] = "0" THEN i + 1
  ELSE scanDigits(s, i)

\* a member value: a string or a number
scanValue(s, i) ==
  IF i <= Len(s) /\ s[i] = "\"" THEN scanString(s, i) ELSE scanNumber(s, i)

RECURSIVE scanMembers(_, _)
\* i is at a member's key: the index after the object's closing brace, 0
\* when the object is malformed
scanMembers(s, i) ==
  LET k == scanString(s, i)
      c == IF k = 0 THEN 0 ELSE skipSpace(s, k)
      v == IF c = 0 \/ c > Len(s) \/ s[c] # ":" THEN 0
           ELSE scanValue(s, skipSpace(s, c + 1))
      e == IF v = 0 THEN 0 ELSE skipSpace(s, v)
  IN  IF e = 0 \/ e > Len(s) THEN 0
      ELSE IF s[e] = "}" THEN e + 1
      ELSE IF s[e] = "," THEN scanMembers(s, skipSpace(s, e + 1))
      ELSE 0

scanObject(s, i) ==
  IF i > Len(s) \/ s[i] # "{" THEN 0
  ELSE LET j == skipSpace(s, i + 1)
       IN  IF j <= Len(s) /\ s[j] = "}" THEN j + 1 ELSE scanMembers(s, j)

\* s holds exactly one JSON object (white space around it allowed)
isValidJSON(s) ==
  LET e == scanObject(s, skipSpace(s, 1))
  IN  e # 0 /\ skipSpace(s, e) = Len(s) + 1

\* ------------------------------------------------------------------------
\* Inputs: sinks, argument lists, application call stacks
\* ------------------------------------------------------------------------
\* values of the io.Writer interface held by a Logger
NilWriter == "nil"
Sinks == {"buf1", "buf2"}

CustomInfoMessage ==
  <<"C", "u", "s", "t", "o", "m", " ", "I", "n", "f", "o", " ", "m",
    "e", "s", "s", "a", "g", "e">>

\* a message with characters JSON has to escape
EscapeMessage == <<"a", "\"", "\\", "\n", "<">>

\* argument lists v... handed to the level methods
ArgLists ==
  { <<StrArg(CustomInfoMessage)>>,
    <<StrArg(EscapeMessage)>>,
    <<IntArg(1), IntArg(2)>>,
    <<StrArg(<<"n", "=">>), IntArg(10)>>,
    <<IntArg(1), StrArg(<<"a">>), IntArg(2)>>,
    <<>> }

MainFile == <<"/", "a", "p", "p", "/", "m", "a", "i", "n", ".", "g", "o">>
SvcFile == <<"/", "a", "p", "p", "/", "s", "v", "c", ".", "g", "o">>
ProcFile ==
  <<"/", "g", "o", "/", "s", "r", "c", "/", "r", "u", "n", "t", "i",
    "m", "e", "/", "p", "r", "o", "c", ".", "g", "o">>
LoggerFile ==
  <<"/", "g", "o", "/", "p", "k", "g", "/", "l", "o", "g", "g", "e",
    "r", ".", "g", "o">>

\* call stacks of application code at its call of a level method,
\* innermost frame first: the frame of the call itself, then its callers
AppStacks ==
  { \* main calls logger.Info; runtime.main called main
    <<Frame(MainFile, 12), Frame(ProcFile, 250)>>,
    \* a function of svc.go calls logger.Info; main called that function
    <<Frame(SvcFile, 7), Frame(MainFile, 20), Frame(ProcFile, 250)>> }

\* the level methods and the level each passes to Logger.log
Methods == {"Debug", "Info", "Warn", "Error", "Fatal"}
methodLevel(m) ==
  CASE m = "Debug" -> DEBUG
    [] m = "Info" -> INFO
    [] m = "Warn" -> WARN
    [] m = "Error" -> ERROR
    [] m = "Fatal" -> FATAL

\* source line of the call l.log(...) in each level method
methodLine(m) ==
  CASE m = "Debug" -> 134
    [] m = "Info" -> 139
    [] m = "Warn" -> 144
    [] m = "Error" -> 149
    [] m = "Fatal" -> 154

\* source line of the runtime.Caller call in each built-in formatter
formatLine(f) == IF f = "JSONFormatter" THEN 97 ELSE 83

\* the call stack at runtime.Caller inside Format, for a level method m
\* called from application code whose stack is appStack:
\* Format <- Logger.log <- level method <- application
stackInFormat(f, m, appStack) ==
  <<Frame(LoggerFile, formatLine(f)), Frame(LoggerFile, 124),
    Frame(LoggerFile, methodLine(m))>> \o appStack

\* ------------------------------------------------------------------------
\* State
\* ------------------------------------------------------------------------
VARIABLES
  level,      \* Logger.level
  output,     \* Logger.output: a sink or NilWriter
  formatter,  \* Logger.formatter: a formatter or NilFormatter
  nwrites,    \* per sink, the number of Write calls it has received
  proc,       \* the process: running, exited (os.Exit) or panicked
  req,        \* the configuration most recently asked for by the caller
  last,       \* the most recent call on the Logger and what it did
  cfg,        \* the configuration layer: the application's LoggerConfig
              \* and the most recent call on that layer
  ff,         \* the Logger of the earlier version, with the LogMessage
              \* function field
  gor         \* per goroutine, its position in Logger.log and what its
              \* call has read and written so far

vars == <<level, output, formatter, nwrites, proc, req, last, cfg, ff, gor>>

\* the state outside the Formatter-based Logger, its sinks and the process
ext == <<cfg, ff, gor>>

Running == [status |-> "running", code |-> 0]
Exited(code) == [status |-> "exited", code |-> code]
Panicked == [status |-> "panicked", code |-> 2]

\* the observation of a call: op is the function called; for a level
\* method, lv/args/stack are its inputs, threshold the l.level it compared
\* against, fmt and sink the l.formatter and l.output it used, nformat the
\* number of Format invocations, message and record the input and the result
\* of Format, wrote the Write calls it issued, outcome how it ended
Call(op, lv, args, stack, threshold, f, sink, nformat, message, record, wrote, outcome) ==
  [op |-> op, lv |-> lv, args |-> args, stack |-> stack,
   threshold |-> threshold, fmt |-> f, sink |-> sink, nformat |-> nformat,
   message |-> message, record |-> record, wrote |-> wrote,
   outcome |-> outcome]

SetterCall(op) ==
  Call(op, 0, <<>>, <<>>, 0, NilFormatter, NilWriter, 0, <<>>, <<>>, <<>>, "returned")

TotalWrites == nwrites["buf1"] + nwrites["buf2"]

\* ------------------------------------------------------------------------
\* LoggerConfig
\* ------------------------------------------------------------------------
StdoutName == <<"s", "t", "d", "o", "u", "t">>
StderrName == <<"s", "t", "d", "e", "r", "r">>
TextName == <<"t", "e", "x", "t">>
JsonName == <<"j", "s", "o", "n">>
CustomName == <<"c", "u", "s", "t", "o", "m">>
FalseName == <<"f", "a", "l", "s", "e">>

\* DefaultConfig(); Custom is the zero value of the interface
DefaultConfig ==
  [Level |-> INFO, Output |-> StdoutName, Format |-> TextName,
   Filepath |-> <<>>, EnableCaller |-> TRUE, Custom |-> NilFormatter]

\* the environment variables LoadConfigFromEnv reads; <<>> is the value
\* os.Getenv returns for a variable that is unset or empty
NoEnv == [LOG_LEVEL |-> <<>>, LOG_OUTPUT |-> <<>>, LOG_FORMAT |-> <<>>,
          LOG_ENABLE_CALLER |-> <<>>]

\* a configuration file that no call has named
NoFile == [kind |-> "none", members |-> <<>>]

\* the observation of a call on the configuration layer: op the function
\* called, env/file/arg its input, result the level parseLogLevel returned,
\* err whether the call returned a non-nil error, diag the diagnostics
\* ApplyConfig wrote to os.Stderr
CfgState(config, op, env, file, arg, result, err, diag) ==
  [config |-> config, op |-> op, env |-> env, file |-> file, arg |-> arg,
   result |-> result, err |-> err, diag |-> diag]

\* the application has called DefaultConfig() and nothing else
CfgStart == CfgState(DefaultConfig, "DefaultConfig", NoEnv, NoFile, <<>>, INFO, FALSE, <<>>)

\* the Logger of the earlier version: its fields level, output and
\* LogMessage, and the parameter output of NewLogger that the closure
\* stored in LogMessage refers to
FnLogger(lv, out, logMessage, captured) ==
  [level |-> lv, output |-> out, LogMessage |-> logMessage, captured |-> captured]

\* values of the LogMessage field: the closure NewLogger builds, or the
\* method value l.JsonLogMessage
DefaultClosure == "func1"
JsonMethod == "JsonLogMessage"

\* no Logger of the earlier version has been built
NoFnLogger == FnLogger(DEBUG, NilWriter, DefaultClosure, NilWriter)

\* the goroutines of the application that call the level methods
Goroutines == {"g1", "g2"}

\* a goroutine's call of a level method: pc its position in Logger.log,
\* m the method, passed whether the filter let the call through, fmt and
\* record the formatter it loaded and what Format returned, wrote the
\* Write calls it issued, reads how often it loaded each field, ncalls and
\* npassed the calls the goroutine has begun and those that passed
GoCall(pc, m, passed, f, record, wrote, reads, ncalls, npassed) ==
  [pc |-> pc, m |-> m, passed |-> passed, fmt |-> f, record |-> record,
   wrote |-> wrote, reads |-> reads, ncalls |-> ncalls, npassed |-> npassed]

NoReads == [level |-> 0, formatter |-> 0, output |-> 0]

\* a goroutine that has not called the Logger
GoIdle == GoCall("idle", "none", FALSE, NilFormatter, <<>>, <<>>, NoReads, 0, 0)

\* NewLogger(output, level, formatter): any values of the three types
Init ==
  /\ level \in LevelValues
  /\ output \in Sinks \cup {NilWriter}
  /\ formatter \in Formatters \cup {NilFormatter}
  /\ nwrites = [s \in Sinks |-> 0]
  /\ proc = Running
  /\ req = [level |-> level, output |-> output, formatter |-> formatter]
  /\ last = SetterCall("NewLogger")
  /\ cfg = CfgStart
  /\ ff = NoFnLogger
  /\ gor = [g \in Goroutines |-> GoIdle]

\* ------------------------------------------------------------------------
\* Operations
\* ------------------------------------------------------------------------
SetOutput(w) ==
  /\ proc = Running
  /\ output' = w
  /\ req' = [req EXCEPT !.output = w]
  /\ last' = SetterCall("SetOutput")
  /\ UNCHANGED <<level, formatter, nwrites, proc>>

\* SetLevel declared on a value receiver: the assignment is lost
SetLevelOnCopy(lv) ==
  /\ proc = Running
  /\ level' = level
  /\ req' = [req EXCEPT !.level = lv]
  /\ last' = SetterCall("SetLevel")
  /\ UNCHANGED <<output, formatter, nwrites, proc>>

SetLevel(lv) ==
  /\ proc = Running
  /\ level' = lv
  /\ req' = [req EXCEPT !.level = lv]
  /\ last' = SetterCall("SetLevel")
  /\ UNCHANGED <<output, formatter, nwrites, proc>>

SetFormatter(f) ==
  /\ proc = Running
  /\ formatter' = f
  /\ req' = [req EXCEPT !.formatter = f]
  /\ last' = SetterCall("SetFormatter")
  /\ UNCHANGED <<level, output, nwrites, proc>>

\* a filter that lets the level just below the threshold through
belowThresholdButOne(lv, threshold) == lv + 1 < threshold

\* a filter that also drops the calls at the threshold itself
belowThresholdInclusive(lv, threshold) == lv <= threshold

\* the filter of Logger.log: the call is dropped
belowThreshold(lv, threshold) == lv < threshold

\* fmt.Fprintln in place of fmt.Fprint: a newline is appended
Fprintln(w, s, werr) == <<[sink |-> w, data |-> s \o <<"\n">>, err |-> werr]>>

\* a write that is repeated once when the sink reports an error
FprintRetry(w, s, werr) ==
  IF werr
  THEN <<[sink |-> w, data |-> s, err |-> werr], [sink |-> w, data |-> s, err |-> werr]>>
  ELSE <<[sink |-> w, data |-> s, err |-> werr]>>

\* a write that hands the record to the sink in two pieces
FprintSplit(w, s, werr) ==
  <<[sink |-> w, data |-> SubSeq(s, 1, Len(s) - 1), err |-> werr],
    [sink |-> w, data |-> SubSeq(s, Len(s), Len(s)), err |-> werr]>>

\* fmt.Fprint(w, s) for one string operand: the Write calls it issues on w,
\* werr telling whether Write returns an error
Fprint(w, s, werr) == <<[sink |-> w, data |-> s, err |-> werr]>>

\* the end of Logger.log after the write
exitsAfter(lv) == lv = FATAL

\* Logger.log(level, v...) reached through level method m from application
\* code with call stack appStack; werr is the result of the sink's Write
log(m, v, appStack, werr) ==
  LET lv == methodLevel(m)
      message == Sprint(v)
      record == Format(formatter, lv, message, stackInFormat(formatter, m, appStack))
      wrote == Fprint(output, record, werr)
  IN
  /\ proc = Running
  /\ TotalWrites < MaxWrites
  /\ IF belowThreshold(lv, level)
     THEN /\ last' = Call(m, lv, v, appStack, level, NilFormatter, NilWriter,
                          0, <<>>, <<>>, <<>>, "returned")
          /\ UNCHANGED <<nwrites, proc>>
     ELSE IF formatter = NilFormatter
     THEN \* method call on a nil interface value: run-time panic
          /\ last' = Call(m, lv, v, appStack, level, formatter, NilWriter,
                          0, message, <<>>, <<>>, "panicked")
          /\ proc' = Panicked
          /\ UNCHANGED nwrites
     ELSE IF output = NilWriter
     THEN \* Fprint calls Write on a nil interface value: run-time panic
          /\ last' = Call(m, lv, v, appStack, level, formatter, output,
                          1, message, record, <<>>, "panicked")
          /\ proc' = Panicked
          /\ UNCHANGED nwrites
     ELSE /\ nwrites' = [nwrites EXCEPT ![output] = @ + Len(wrote)]
          /\ proc' = IF exitsAfter(lv) THEN Exited(1) ELSE Running
          /\ last' = Call(m, lv, v, appStack, level, formatter, output,
                          1, message, record, wrote,
                          IF exitsAfter(lv) THEN "exited" ELSE "returned")
  /\ UNCHANGED <<level, output, formatter, req>>

Debug(v, appStack, werr) == log("Debug", v, appStack, werr)
Info(v, appStack, werr) == log("Info", v, appStack, werr)
Warn(v, appStack, werr) == log("Warn", v, appStack, werr)
Error(v, appStack, werr) == log("Error", v, appStack, werr)
Fatal(v, appStack, werr) == log("Fatal", v, appStack, werr)

Next ==
  \/ \E w \in Sinks \cup {NilWriter} : SetOutput(w) /\ UNCHANGED ext
  \/ \E lv \in LevelValues : SetLevel(lv) /\ UNCHANGED ext
  \/ \E f \in Formatters \cup {NilFormatter} : SetFormatter(f) /\ UNCHANGED ext
  \/ \E v \in ArgLists, st \in AppStacks, werr \in BOOLEAN :
        Debug(v, st, werr) /\ UNCHANGED ext
  \/ \E v \in ArgLists, st \in AppStacks, werr \in BOOLEAN :
        Info(v, st, werr) /\ UNCHANGED ext
  \/ \E v \in ArgLists, st \in AppStacks, werr \in BOOLEAN :
        Warn(v, st, werr) /\ UNCHANGED ext
  \/ \E v \in ArgLists, st \in AppStacks, werr \in BOOLEAN :
        Error(v, st, werr) /\ UNCHANGED ext
  \/ \E v \in ArgLists, st \in AppStacks, werr \in BOOLEAN :
        Fatal(v, st, werr) /\ UNCHANGED ext

Spec == Init /\ [][Next]_vars

\* ------------------------------------------------------------------------
\* The configuration layer (config.go)
\* ------------------------------------------------------------------------
LowerLetters ==
  <<"a", "b", "c", "d", "e", "f", "g", "h", "i", "j", "k", "l", "m",
    "n", "o", "p", "q", "r", "s", "t", "u", "v", "w", "x", "y", "z">>
UpperLetters ==
  <<"A", "B", "C", "D", "E", "F", "G", "H", "I", "J", "K", "L", "M",
    "N", "O", "P", "Q", "R", "S", "T", "U", "V", "W", "X", "Y", "Z">>

\* c mapped from the alphabet from to the alphabet to, other characters kept
mapLetter(c, from, to) ==
  IF \E i \in 1..26 : from[i] = c
  THEN to[CHOOSE i \in 1..26 : from[i] = c]
  ELSE c

\* strings.ToUpper / strings.ToLower
ToUpper(str) == [i \in 1..Len(str) |-> mapLetter(str[i], LowerLetters, UpperLetters)]
ToLower(str) == [i \in 1..Len(str) |-> mapLetter(str[i], UpperLetters, LowerLetters)]

\* a parser that compares the name as it was given
parseLogLevelCaseSensitive(name) ==
  CASE name = <<"D", "E", "B", "U", "G">> -> DEBUG
    [] name = <<"I", "N", "F", "O">> -> INFO
    [] name = <<"W", "A", "R", "N">> -> WARN
    [] name = <<"E", "R", "R", "O", "R">> -> ERROR
    [] name = <<"F", "A", "T", "A", "L">> -> FATAL
    [] OTHER -> INFO

\* parseLogLevel: switch strings.ToUpper(level)
parseLogLevel(name) ==
  LET u == ToUpper(name)
  IN  CASE u = <<"D", "E", "B", "U", "G">> -> DEBUG
        [] u = <<"I", "N", "F", "O">> -> INFO
        [] u = <<"W", "A", "R", "N">> -> WARN
        [] u = <<"E", "R", "R", "O", "R">> -> ERROR
        [] u = <<"F", "A", "T", "A", "L">> -> FATAL
        [] OTHER -> INFO

\* LoadConfigFromEnv: DefaultConfig overridden by the variables that are set
configFromEnv(env) ==
  [DefaultConfig EXCEPT
     !.Level = IF env.LOG_LEVEL # <<>> THEN parseLogLevel(env.LOG_LEVEL) ELSE @,
     !.Output = IF env.LOG_OUTPUT # <<>> THEN env.LOG_OUTPUT ELSE @,
     !.Format = IF env.LOG_FORMAT # <<>> THEN ToLower(env.LOG_FORMAT) ELSE @,
     !.EnableCaller = IF env.LOG_ENABLE_CALLER = FalseName THEN FALSE ELSE @]

\* the io.Writer values ApplyConfig chooses among
StdoutWriter == "os.Stdout"
StderrWriter == "os.Stderr"
FileWriter == "*os.File"

\* the diagnostics ApplyConfig prints on os.Stderr
OpenDiagnostic == "Error opening log file"
CustomNilDiagnostic == "Error: Custom formatter is nil"

\* the output selection of ApplyConfig; openFails is the outcome of
\* os.OpenFile on config.Output
selectOutput(config, openFails) ==
  IF config.Output = StderrName THEN [writer |-> StderrWriter, diag |-> <<>>]
  ELSE IF config.Output # StdoutName
  THEN IF openFails THEN [writer |-> StdoutWriter, diag |-> <<OpenDiagnostic>>]
       ELSE [writer |-> FileWriter, diag |-> <<>>]
  ELSE [writer |-> StdoutWriter, diag |-> <<>>]

\* a selection that hands config.Custom on without looking at it
selectFormatterUnchecked(config) ==
  IF config.Format = JsonName THEN [formatter |-> "JSONFormatter", diag |-> <<>>]
  ELSE IF config.Format = CustomName
  THEN [formatter |-> config.Custom, diag |-> <<>>]
  ELSE [formatter |-> "DefaultFormatter", diag |-> <<>>]

\* the formatter selection of ApplyConfig: switch config.Format
selectFormatter(config) ==
  IF config.Format = JsonName THEN [formatter |-> "JSONFormatter", diag |-> <<>>]
  ELSE IF config.Format = CustomName
  THEN IF config.Custom # NilFormatter
       THEN [formatter |-> config.Custom, diag |-> <<>>]
       ELSE [formatter |-> "DefaultFormatter", diag |-> <<CustomNilDiagnostic>>]
  ELSE [formatter |-> "DefaultFormatter", diag |-> <<>>]

\* inputs of the configuration layer
EnvLevelNames ==
  { <<>>,
    <<"d", "e", "b", "u", "g">>,
    <<"D", "E", "B", "U", "G">>,
    <<"I", "n", "f", "o">>,
    <<"w", "a", "r", "n">>,
    <<"W", "A", "R", "N">>,
    <<"e", "R", "R", "o", "R">>,
    <<"f", "a", "t", "a", "l">>,
    <<"F", "A", "T", "A", "L">>,
    <<"w", "a", "r", "n", "i", "n", "g">>,
    <<"T", "R", "A", "C", "E">>,
    <<"4">> }
EnvOutputs == {<<>>, StderrName, <<"a", ".", "l", "o", "g">>}
EnvFormats == {<<>>, <<"J", "S", "O", "N">>, CustomName}
EnvCallers == {<<>>, FalseName}
Envs ==
  [LOG_LEVEL : EnvLevelNames, LOG_OUTPUT : EnvOutputs,
   LOG_FORMAT : EnvFormats, LOG_ENABLE_CALLER : EnvCallers]

\* format names the application assigns to config.Format itself
AssignedFormats ==
  {TextName, JsonName, CustomName, <<"J", "S", "O", "N">>, <<"x", "m", "l">>, <<>>}

\* the application's program: it loads a configuration at most once, may
\* then assign the format and the custom formatter, and applies the result
CanLoad == cfg.op \in {"DefaultConfig", "parseLogLevel"}
CanAssign == cfg.op \in {"DefaultConfig", "LoadConfigFromEnv", "LoadConfigFromFile"}
CanApply == cfg.op # "ApplyConfig"

\* a call of parseLogLevel on its own
ParseLogLevel(name) ==
  /\ CanLoad
  /\ cfg' = CfgState(cfg.config, "parseLogLevel", NoEnv, NoFile, name,
                     parseLogLevel(name), FALSE, <<>>)
  /\ UNCHANGED <<level, output, formatter, nwrites, proc, req, last>>

\* config = LoadConfigFromEnv() with the environment env
LoadConfigFromEnv(env) ==
  /\ CanLoad
  /\ cfg' = CfgState(configFromEnv(env), "LoadConfigFromEnv", env, NoFile,
                     <<>>, INFO, FALSE, <<>>)
  /\ UNCHANGED <<level, output, formatter, nwrites, proc, req, last>>

\* config.Format = f; config.Custom = c, assigned by the application
AssignFormat(f, c) ==
  /\ CanAssign
  /\ cfg' = CfgState([cfg.config EXCEPT !.Format = f, !.Custom = c],
                     "AssignFormat", NoEnv, NoFile, <<>>, INFO, FALSE, <<>>)
  /\ UNCHANGED <<level, output, formatter, nwrites, proc, req, last>>

\* logger = ApplyConfig(config): the Logger NewLogger builds from the
\* selected output, config.Level and the selected formatter
ApplyConfig(openFails) ==
  LET o == selectOutput(cfg.config, openFails)
      f == selectFormatter(cfg.config)
  IN  /\ CanApply
      /\ level' = cfg.config.Level
      /\ output' = o.writer
      /\ formatter' = f.formatter
      /\ req' = [level |-> cfg.config.Level, output |-> o.writer,
                 formatter |-> f.formatter]
      /\ last' = SetterCall("NewLogger")
      /\ cfg' = [cfg EXCEPT !.op = "ApplyConfig", !.diag = o.diag \o f.diag]
      /\ UNCHANGED <<nwrites, proc>>

\* ------------------------------------------------------------------------
\* LoadConfigFromFile: json.NewDecoder(file).Decode(&config)
\* ------------------------------------------------------------------------
\* JSON values of a configuration file
JStr(str) == [kind |-> "string", s |-> str, n |-> 0, b |-> FALSE]
JNum(n) == [kind |-> "number", s |-> <<>>, n |-> n, b |-> FALSE]
JBool(b) == [kind |-> "bool", s |-> <<>>, n |-> 0, b |-> b]
Member(key, val) == [key |-> key, val |-> val]

\* the json tags of LoggerConfig (Custom has json:"-")
LevelTag == <<"l", "e", "v", "e", "l">>
OutputTag == <<"o", "u", "t", "p", "u", "t">>
FormatTag == <<"f", "o", "r", "m", "a", "t">>
FilepathTag == <<"f", "i", "l", "e", "p", "a", "t", "h">>
EnableCallerTag == <<"e", "n", "a", "b", "l", "e", "_", "c", "a", "l", "l", "e", "r">>

\* one member of the object decoded into the struct: the key is matched
\* with the tags regardless of letter case; a value of the wrong JSON type
\* leaves the field as it is and is an UnmarshalTypeError; an unknown key
\* is skipped
decodeMember(config, m) ==
  LET key == ToLower(m.key)
      v == m.val
  IN  IF key = LevelTag
      THEN IF v.kind = "number" THEN [config |-> [config EXCEPT !.Level = v.n], err |-> FALSE]
           ELSE [config |-> config, err |-> TRUE]
      ELSE IF key = OutputTag
      THEN IF v.kind = "string" THEN [config |-> [config EXCEPT !.Output = v.s], err |-> FALSE]
           ELSE [config |-> config, err |-> TRUE]
      ELSE IF key = FormatTag
      THEN IF v.kind = "string" THEN [config |-> [config EXCEPT !.Format = v.s], err |-> FALSE]
           ELSE [config |-> config, err |-> TRUE]
      ELSE IF key = FilepathTag
      THEN IF v.kind = "string" THEN [config |-> [config EXCEPT !.Filepath = v.s], err |-> FALSE]
           ELSE [config |-> config, err |-> TRUE]
      ELSE IF key = EnableCallerTag
      THEN IF v.kind = "bool" THEN [config |-> [config EXCEPT !.EnableCaller = v.b], err |-> FALSE]
           ELSE [config |-> config, err |-> TRUE]
      ELSE [config |-> config, err |-> FALSE]

RECURSIVE decodeMembers(_, _, _)
\* members 1..k decoded in order; decoding goes on after a type error and
\* the error is reported at the end
decodeMembers(config, members, k) ==
  IF k = 0 THEN [config |-> config, err |-> FALSE]
  ELSE LET before == decodeMembers(config, members, k - 1)
           this == decodeMember(before.config, members[k])
       IN  [config |-> this.config, err |-> before.err \/ this.err]

\* a configuration file: missing (os.Open fails), malformed (empty,
\* truncated or otherwise not a JSON value), a JSON value that is no object,
\* or an object with its members
MissingFile == [kind |-> "missing", members |-> <<>>]
MalformedFile == [kind |-> "malformed", members |-> <<>>]
NonObjectFile == [kind |-> "nonobject", members |-> <<>>]
ObjectFile(members) == [kind |-> "object", members |-> members]

\* LoadConfigFromFile: the config and whether an error is returned with it
configFromFile(file) ==
  IF file.kind = "missing" THEN [config |-> DefaultConfig, err |-> TRUE]
  ELSE IF file.kind \in {"malformed", "nonobject"}
  THEN [config |-> DefaultConfig, err |-> TRUE]
  ELSE decodeMembers(DefaultConfig, file.members, Len(file.members))

DebugUpper == <<"D", "E", "B", "U", "G">>
WarnLower == <<"w", "a", "r", "n">>
BogusName == <<"b", "o", "g", "u", "s">>

\* the file of the documented example:
\* {"level": "DEBUG", "output": "stdout", "format": "json", "enable_caller": true}
ExampleFile ==
  ObjectFile(<<Member(LevelTag, JStr(DebugUpper)), Member(OutputTag, JStr(StdoutName)),
               Member(FormatTag, JStr(JsonName)), Member(EnableCallerTag, JBool(TRUE))>>)

ConfigFiles ==
  { MissingFile, MalformedFile, NonObjectFile, ExampleFile,
    ObjectFile(<<>>),
    ObjectFile(<<Member(LevelTag, JNum(DEBUG)), Member(FormatTag, JStr(JsonName))>>),
    ObjectFile(<<Member(FormatTag, JStr(JsonName)), Member(LevelTag, JStr(WarnLower))>>),
    ObjectFile(<<Member(LevelTag, JStr(BogusName))>>),
    ObjectFile(<<Member(LevelTag, JNum(ERROR)), Member(OutputTag, JStr(StderrName)),
                 Member(EnableCallerTag, JBool(FALSE))>>),
    ObjectFile(<<Member(OutputTag, JNum(5)), Member(LevelTag, JNum(WARN))>>),
    ObjectFile(<<Member(ToUpper(LevelTag), JNum(FATAL)),
                 Member(FilepathTag, JStr(<<"a", ".", "l", "o", "g">>))>>),
    ObjectFile(<<Member(FormatTag, JStr(CustomName)), Member(EnableCallerTag, JStr(FalseName))>>) }

\* config, err = LoadConfigFromFile(path), file being what path names
LoadConfigFromFile(file) ==
  LET r == configFromFile(file)
  IN  /\ CanLoad
      /\ cfg' = CfgState(r.config, "LoadConfigFromFile", NoEnv, file, <<>>,
                         INFO, r.err, <<>>)
      /\ UNCHANGED <<level, output, formatter, nwrites, proc, req, last>>

\* the application has called DefaultConfig(); no Logger is built yet
ConfigInit ==
  /\ cfg = CfgStart
  /\ level = DEBUG
  /\ output = NilWriter
  /\ formatter = NilFormatter
  /\ req = [level |-> DEBUG, output |-> NilWriter, formatter |-> NilFormatter]
  /\ nwrites = [s \in Sinks |-> 0]
  /\ proc = Running
  /\ last = SetterCall("none")
  /\ ff = NoFnLogger
  /\ gor = [g \in Goroutines |-> GoIdle]

ConfigNext ==
  \/ \E name \in EnvLevelNames : ParseLogLevel(name) /\ UNCHANGED <<ff, gor>>
  \/ \E env \in Envs : LoadConfigFromEnv(env) /\ UNCHANGED <<ff, gor>>
  \/ \E file \in ConfigFiles : LoadConfigFromFile(file) /\ UNCHANGED <<ff, gor>>
  \/ \E f \in AssignedFormats, c \in {NilFormatter, "MyCustomFormatter"} :
        AssignFormat(f, c) /\ UNCHANGED <<ff, gor>>
  \/ \E openFails \in BOOLEAN : ApplyConfig(openFails) /\ UNCHANGED <<ff, gor>>

ConfigSpec == ConfigInit /\ [][ConfigNext]_vars

\* ------------------------------------------------------------------------
\* The Logger of the earlier version: NewLogger(output, level) with the
\* LogMessage function field
\* ------------------------------------------------------------------------
\* source line of the call l.LogMessage(...) in each level method
fnMethodLine(m) ==
  CASE m = "Debug" -> 286
    [] m = "Info" -> 293
    [] m = "Warn" -> 300
    [] m = "Error" -> 307
    [] m = "Fatal" -> 314

\* file and line of frame skip of the stack, as both writers report it
siteAt(stack, skip) ==
  LET c == Caller(stack, skip)
  IN  IF c.ok THEN [file |-> Base(c.file), line |-> c.line]
      ELSE [file |-> Base(<<"u", "n", "k", "n", "o", "w", "n">>), line |-> 0]

\* the text defaultLogMessage writes: "%s - %s:%d - [%s] %s\n" with the
\* site of runtime.Caller(3)
defaultLogMessage(lv, message, stack) ==
  LET cs == siteAt(stack, 3)
  IN  NowText \o <<" ", "-", " ">> \o cs.file \o <<":">> \o Itoa(cs.line)
      \o <<" ", "-", " ", "[">> \o logLevelToString(lv) \o <<"]", " ">>
      \o message \o <<"\n">>

\* the logEntry map of JsonLogMessage, in key order, with the site of
\* runtime.Caller(2)
fnLogEntry(lv, message, stack) ==
  LET cs == siteAt(stack, 2)
  IN  << <<<<"f", "i", "l", "e">>, StrArg(cs.file)>>,
         <<<<"l", "e", "v", "e", "l">>, StrArg(logLevelToString(lv))>>,
         <<<<"l", "i", "n", "e">>, IntArg(cs.line)>>,
         <<<<"m", "e", "s", "s", "a", "g", "e">>, StrArg(message)>>,
         <<<<"t", "i", "m", "e", "s", "t", "a", "m", "p">>, StrArg(NowRFC3339)>> >>

\* the message JsonLogMessage hands to defaultLogMessage when json.Marshal
\* fails
marshalErrorMessage(message) ==
  <<"E", "r", "r", "o", "r", " ", "f", "o", "r", "m", "a", "t", "t", "i",
  "n", "g", " ", "J", "S", "O", "N", " ", "l", "o", "g", ":", " ", "u",
  "n", "s", "u", "p", "p", "o", "r", "t", "e", "d", " ", "t", "y", "p",
  "e", ",", " ", "o", "r", "i", "g", "i", "n", "a", "l", " ", "m", "e",
  "s", "s", "a", "g", "e", ":", " ">>
  \o message

\* the call stack inside the closure's defaultLogMessage:
\* defaultLogMessage <- closure <- level method <- application
stackInDefault(m, appStack) ==
  <<Frame(LoggerFile, 230), Frame(LoggerFile, 195),
    Frame(LoggerFile, fnMethodLine(m))>> \o appStack

\* the call stack inside JsonLogMessage called through the function field:
\* JsonLogMessage <- level method <- application
stackInJson(m, appStack) ==
  <<Frame(LoggerFile, 251), Frame(LoggerFile, fnMethodLine(m))>> \o appStack

\* what l.LogMessage(lv, message) writes and where: the closure writes
\* the plain text to the output parameter of NewLogger it captured;
\* JsonLogMessage writes to l.output, with fmt.Fprintln
logMessageTarget(l) ==
  IF l.LogMessage = DefaultClosure THEN l.captured ELSE l.output

logMessageRecord(l, lv, message, m, appStack) ==
  IF l.LogMessage = DefaultClosure
  THEN defaultLogMessage(lv, message, stackInDefault(m, appStack))
  ELSE LET j == Marshal(fnLogEntry(lv, message, stackInJson(m, appStack)))
       IN  IF j.err
           THEN defaultLogMessage(lv, marshalErrorMessage(message),
                    <<Frame(LoggerFile, 230), Frame(LoggerFile, 271),
                      Frame(LoggerFile, fnMethodLine(m))>> \o appStack)
           ELSE j.bytes \o <<"\n">>

\* NewLogger(output, level)
FnInit ==
  /\ \E lv \in LevelValues, w \in Sinks \cup {NilWriter} :
       /\ ff = FnLogger(lv, w, DefaultClosure, w)
       /\ req = [level |-> lv, output |-> w, formatter |-> NilFormatter]
  /\ nwrites = [s \in Sinks |-> 0]
  /\ proc = Running
  /\ last = SetterCall("NewLogger")
  /\ level = DEBUG
  /\ output = NilWriter
  /\ formatter = NilFormatter
  /\ cfg = CfgStart
  /\ gor = [g \in Goroutines |-> GoIdle]

\* l.SetOutput(w)
FnSetOutput(w) ==
  /\ proc = Running
  /\ ff' = [ff EXCEPT !.output = w]
  /\ req' = [req EXCEPT !.output = w]
  /\ last' = SetterCall("SetOutput")
  /\ UNCHANGED <<level, output, formatter, nwrites, proc, cfg>>

\* l.SetLevel(lv)
FnSetLevel(lv) ==
  /\ proc = Running
  /\ ff' = [ff EXCEPT !.level = lv]
  /\ req' = [req EXCEPT !.level = lv]
  /\ last' = SetterCall("SetLevel")
  /\ UNCHANGED <<level, output, formatter, nwrites, proc, cfg>>

\* logger.LogMessage = logger.JsonLogMessage
UseJsonLogMessage ==
  /\ proc = Running
  /\ ff.LogMessage = DefaultClosure
  /\ ff' = [ff EXCEPT !.LogMessage = JsonMethod]
  /\ last' = SetterCall("UseJsonLogMessage")
  /\ UNCHANGED <<level, output, formatter, nwrites, proc, req, cfg>>

\* a level method of the earlier Logger, called from application code
\* with call stack appStack: if l.level <= lv { l.LogMessage(lv, Sprint(v)) }
fnLog(m, v, appStack, werr) ==
  LET lv == methodLevel(m)
      message == Sprint(v)
      target == logMessageTarget(ff)
      record == logMessageRecord(ff, lv, message, m, appStack)
      wrote == Fprint(target, record, werr)
  IN
  /\ proc = Running
  /\ TotalWrites < MaxWrites
  /\ IF ~(ff.level <= lv)
     THEN /\ last' = Call(m, lv, v, appStack, ff.level, ff.LogMessage, NilWriter,
                          0, <<>>, <<>>, <<>>, "returned")
          /\ UNCHANGED <<nwrites, proc>>
     ELSE IF target = NilWriter
     THEN \* Write on a nil interface value: run-time panic
          /\ last' = Call(m, lv, v, appStack, ff.level, ff.LogMessage, target,
                          1, message, record, <<>>, "panicked")
          /\ proc' = Panicked
          /\ UNCHANGED nwrites
     ELSE /\ nwrites' = [nwrites EXCEPT ![target] = @ + Len(wrote)]
          /\ proc' = IF exitsAfter(lv) THEN Exited(1) ELSE Running
          /\ last' = Call(m, lv, v, appStack, ff.level, ff.LogMessage, target,
                          1, message, record, wrote,
                          IF exitsAfter(lv) THEN "exited" ELSE "returned")
  /\ UNCHANGED <<level, output, formatter, req, cfg, ff>>

FnDebug(v, appStack, werr) == fnLog("Debug", v, appStack, werr)
FnInfo(v, appStack, werr) == fnLog("Info", v, appStack, werr)
FnWarn(v, appStack, werr) == fnLog("Warn", v, appStack, werr)
FnError(v, appStack, werr) == fnLog("Error", v, appStack, werr)
FnFatal(v, appStack, werr) == fnLog("Fatal", v, appStack, werr)

\* the arguments the application passes to the level methods
FnArgLists == { <<StrArg(CustomInfoMessage)>>, <<IntArg(1), IntArg(2)>> }

FnNext ==
  \/ \E w \in Sinks \cup {NilWriter} : FnSetOutput(w) /\ UNCHANGED gor
  \/ \E lv \in LevelValues : FnSetLevel(lv) /\ UNCHANGED gor
  \/ UseJsonLogMessage /\ UNCHANGED gor
  \/ \E v \in FnArgLists, st \in AppStacks, werr \in BOOLEAN :
        FnDebug(v, st, werr) /\ UNCHANGED gor
  \/ \E v \in FnArgLists, st \in AppStacks, werr \in BOOLEAN :
        FnInfo(v, st, werr) /\ UNCHANGED gor
  \/ \E v \in FnArgLists, st \in AppStacks, werr \in BOOLEAN :
        FnWarn(v, st, werr) /\ UNCHANGED gor
  \/ \E v \in FnArgLists, st \in AppStacks, werr \in BOOLEAN :
        FnError(v, st, werr) /\ UNCHANGED gor
  \/ \E v \in FnArgLists, st \in AppStacks, werr \in BOOLEAN :
        FnFatal(v, st, werr) /\ UNCHANGED gor

FnSpec == FnInit /\ [][FnNext]_vars

\* ------------------------------------------------------------------------
\* Concurrent use of the Formatter-based Logger
\* ------------------------------------------------------------------------
\* Goroutines call the level methods while the application calls the
\* setters. Logger.log takes no lock; its accesses to the Logger are the
\* load of l.level, the load of l.formatter and the load of l.output, in
\* this order, and each is one step here. A load that races with a setter
\* yields the old or the new value: level is one word, and for the
\* formatters and sinks below a torn two-word interface value either is one
\* of the two values or fails like nil at the method call.

\* what the goroutines log, and from where
GoArgs == <<StrArg(CustomInfoMessage)>>
GoStack == <<Frame(SvcFile, 7), Frame(ProcFile, 250)>>
GoMethods == {"Info", "Error", "Fatal"}

\* the values the application constructs the Logger with and sets
GoLevels == {DEBUG, ERROR}
GoFormatters == {"DefaultFormatter", "MyCustomFormatter", NilFormatter}
GoSinks == Sinks \cup {NilWriter}

\* the calls begun and the calls that passed the filter, over all goroutines
CallsBegun == gor["g1"].ncalls + gor["g2"].ncalls
CallsPassed == gor["g1"].npassed + gor["g2"].npassed

\* NewLogger(output, level, formatter); no goroutine has called yet
GoInit ==
  /\ level \in GoLevels
  /\ output \in GoSinks
  /\ formatter \in GoFormatters
  /\ req = [level |-> level, output |-> output, formatter |-> formatter]
  /\ nwrites = [s \in Sinks |-> 0]
  /\ proc = Running
  /\ last = SetterCall("NewLogger")
  /\ cfg = CfgStart
  /\ ff = NoFnLogger
  /\ gor = [g \in Goroutines |-> GoIdle]

\* goroutine g calls level method m; Logger.log loads l.level and returns
\* when the level is below it
GoBegin(g, m) ==
  LET c == gor[g]
      passes == ~belowThreshold(methodLevel(m), level)
  IN  /\ proc = Running
      /\ c.pc = "idle"
      /\ CallsBegun < MaxWrites
      /\ gor' = [gor EXCEPT ![g] =
                   GoCall(IF passes THEN "format" ELSE "idle", m, passes,
                          NilFormatter, <<>>, <<>>,
                          [NoReads EXCEPT !.level = 1],
                          c.ncalls + 1, c.npassed + (IF passes THEN 1 ELSE 0))]
      /\ UNCHANGED <<level, output, formatter, nwrites, proc, req, last, cfg, ff>>

\* message := fmt.Sprint(v...); l.formatter.Format(level, message): the
\* load of l.formatter and the call of Format on the value loaded
GoFormat(g) ==
  LET c == gor[g]
      reads == [c.reads EXCEPT !.formatter = @ + 1]
  IN  /\ proc = Running
      /\ c.pc = "format"
      /\ IF formatter = NilFormatter
         THEN /\ gor' = [gor EXCEPT ![g] = [c EXCEPT !.pc = "panicked", !.reads = reads]]
              /\ proc' = Panicked
         ELSE /\ gor' = [gor EXCEPT ![g] =
                           [c EXCEPT !.pc = "write", !.reads = reads,
                                     !.fmt = formatter,
                                     !.record = Format(formatter, methodLevel(c.m), Sprint(GoArgs),
                                                       stackInFormat(formatter, c.m, GoStack))]]
              /\ UNCHANGED proc
      /\ UNCHANGED <<level, output, formatter, nwrites, req, last, cfg, ff>>

\* fmt.Fprint(l.output, formattedMessage): the load of l.output and the
\* Write on the value loaded
GoWrite(g, werr) ==
  LET c == gor[g]
      reads == [c.reads EXCEPT !.output = @ + 1]
      wrote == Fprint(output, c.record, werr)
  IN  /\ proc = Running
      /\ c.pc = "write"
      /\ IF output = NilWriter
         THEN /\ gor' = [gor EXCEPT ![g] = [c EXCEPT !.pc = "panicked", !.reads = reads]]
              /\ proc' = Panicked
              /\ UNCHANGED nwrites
         ELSE /\ gor' = [gor EXCEPT ![g] =
                           [c EXCEPT !.pc = IF exitsAfter(methodLevel(c.m)) THEN "exit" ELSE "idle",
                                     !.reads = reads, !.wrote = wrote]]
              /\ nwrites' = [nwrites EXCEPT ![output] = @ + Len(wrote)]
              /\ UNCHANGED proc
      /\ UNCHANGED <<level, output, formatter, req, last, cfg, ff>>

\* if level == FATAL { os.Exit(1) }: the process ends with every goroutine
GoExit(g) ==
  /\ proc = Running
  /\ gor[g].pc = "exit"
  /\ proc' = Exited(1)
  /\ gor' = [gor EXCEPT ![g].pc = "exited"]
  /\ UNCHANGED <<level, output, formatter, nwrites, req, last, cfg, ff>>

GoNext ==
  \/ \E w \in GoSinks : SetOutput(w) /\ UNCHANGED ext
  \/ \E lv \in GoLevels : SetLevel(lv) /\ UNCHANGED ext
  \/ \E f \in GoFormatters : SetFormatter(f) /\ UNCHANGED ext
  \/ \E g \in Goroutines, m \in GoMethods : GoBegin(g, m)
  \/ \E g \in Goroutines : GoFormat(g)
  \/ \E g \in Goroutines, werr \in BOOLEAN : GoWrite(g, werr)
  \/ \E g \in Goroutines : GoExit(g)

GoSpec == GoInit /\ [][GoNext]_vars

\* ------------------------------------------------------------------------
\* Properties
\* ------------------------------------------------------------------------
IsLogCall == last.op \in Methods
HasSinkAndFormatter == output # NilWriter /\ formatter # NilFormatter
Wrote == Len(last.wrote) >= 1

\* C1: on a Logger that holds a sink and a formatter and whose threshold T
\* is one of the five levels, a call of the level method for L issues
\* exactly one Write, on the Logger's sink, when L >= T and none when L < T.
Thm_C1_LevelFiltering ==
  (IsLogCall /\ HasSinkAndFormatter /\ last.threshold \in Levels) =>
    /\ Len(last.wrote) = (IF last.lv >= last.threshold THEN 1 ELSE 0)
    /\ \A i \in 1..Len(last.wrote) : last.wrote[i].sink = output

\* a Debug call dropped by threshold INFO after an earlier call has passed
Wit_C1_FilteredAfterPassed ==
  /\ last.op = "Debug" /\ last.threshold = INFO /\ HasSinkAndFormatter
  /\ last.wrote = <<>>
  /\ TotalWrites = 1

\* the call site a built-in formatter reported for the last call
reportedSite == callSite(stackInFormat(last.fmt, last.op, last.stack))

\* C2: the file and line a built-in formatter puts into the record written
\* for a level method called directly from application code are those of
\* the application's call itself (the innermost application frame).
Claim_C2_CallSiteIsApplicationCall ==
  (IsLogCall /\ Wrote /\ last.fmt \in BuiltinFormatters) =>
    reportedSite = [file |-> Base(last.stack[1].file), line |-> last.stack[1].line]

\* C3: every Fatal call on a Logger that holds a sink and a formatter,
\* whatever the threshold, issues exactly one Write and then exits the
\* process with status 1; no other level method ends the process.
Claim_C3_FatalAlwaysTerminates ==
  /\ (last.op = "Fatal" /\ HasSinkAndFormatter) =>
       (Len(last.wrote) = 1 /\ last.outcome = "exited" /\ proc = Exited(1))
  /\ (IsLogCall /\ last.op # "Fatal") => proc.status # "exited"

CustomInfoRecord ==
  <<"*", "*", "C", "U", "S", "T", "O", "M", " ", "L", "O", "G", "*",
    "*", " ", "[", "I", "N", "F", "O", "]", " ">> \o CustomInfoMessage \o <<"\n">>

\* C4: the bytes handed to the sink's Write are exactly the string Format
\* returned for the call; with the custom formatter of the test suite an
\* Info("Custom Info message") puts exactly
\* "**CUSTOM LOG** [INFO] Custom Info message\n" on the sink.
Thm_C4_NoAdditionalFraming ==
  /\ IsLogCall =>
       \A i \in 1..Len(last.wrote) : last.wrote[i].data = last.record
  /\ (last.op = "Info" /\ last.fmt = "MyCustomFormatter" /\ Wrote
      /\ last.args = <<StrArg(CustomInfoMessage)>>) =>
       last.wrote[1].data = CustomInfoRecord

Wit_C4_CustomRecordWritten ==
  /\ last.op = "Info" /\ last.fmt = "MyCustomFormatter"
  /\ last.args = <<StrArg(CustomInfoMessage)>>
  /\ Len(last.wrote) = 1 /\ last.wrote[1].data = CustomInfoRecord

\* C5: a log call filters against the threshold, formats with the formatter
\* and writes to the sink most recently set (by NewLogger or a setter); an
\* Info call on a Logger last set to threshold INFO, with a sink and a
\* formatter, produces output.
Thm_C5_RuntimeReconfiguration ==
  /\ level = req.level /\ output = req.output /\ formatter = req.formatter
  /\ IsLogCall =>
       /\ last.threshold = req.level
       /\ last.nformat = 1 => last.fmt = req.formatter
       /\ \A i \in 1..Len(last.wrote) : last.wrote[i].sink = req.output
  /\ (last.op = "Info" /\ req.level = INFO /\ req.output # NilWriter
      /\ req.formatter # NilFormatter) => Wrote

\* the same Logger has written on both sinks, the second time by an Info
\* call: SetOutput took effect between the two calls
Wit_C5_WroteOnBothSinks ==
  /\ nwrites["buf1"] = 1 /\ nwrites["buf2"] = 1
  /\ last.op = "Info" /\ Wrote /\ last.wrote[1].sink = req.output
  /\ last.threshold = req.level

EndsWithNewline(s) == Len(s) >= 1 /\ s[Len(s)] = "\n"

\* C6: every record written with a built-in formatter ends with a line
\* terminator.
Claim_C6_RecordsEndWithNewline ==
  (IsLogCall /\ last.fmt \in BuiltinFormatters) =>
    \A i \in 1..Len(last.wrote) : EndsWithNewline(last.wrote[i].data)

\* C7: whatever the level and the message, the bytes a Logger with the
\* JSONFormatter writes parse as one well-formed JSON object.
Thm_C7_JSONWellFormed ==
  (IsLogCall /\ last.fmt = "JSONFormatter") =>
    \A i \in 1..Len(last.wrote) : isValidJSON(last.wrote[i].data)

\* a message holding a quote, a backslash, a newline and "<" was written
Wit_C7_EscapedMessageWritten ==
  /\ IsLogCall /\ last.fmt = "JSONFormatter" /\ Wrote
  /\ last.message = EscapeMessage
  /\ isValidJSON(last.wrote[1].data)

RECURSIVE concatArgs(_)
\* the arguments' representations joined with nothing in between
concatArgs(a) ==
  IF a = <<>> THEN <<>> ELSE printArg(Head(a)) \o concatArgs(Tail(a))

\* C8 as stated: the message of a written record is the plain concatenation
\* of the arguments' representations, no separator between any two of them.
Claim_C8_NoSeparatorEver ==
  (IsLogCall /\ Wrote) => last.message = concatArgs(last.args)

RECURSIVE joinArgs(_)
\* the representations joined with one space exactly between two adjacent
\* arguments neither of which is a string
joinArgs(a) ==
  IF a = <<>> THEN <<>>
  ELSE IF Len(a) = 1 THEN printArg(a[1])
  ELSE printArg(a[1])
       \o (IF a[1].kind = "string" \/ a[2].kind = "string" THEN <<>> ELSE <<" ">>)
       \o joinArgs(Tail(a))

\* C8 amended: no separator between two adjacent arguments of which at
\* least one is a string, a single space between two adjacent arguments
\* neither of which is a string.
Thm_C8_SpaceOnlyBetweenNonStrings ==
  (IsLogCall /\ last.nformat = 1) =>
    /\ last.message = joinArgs(last.args)
    /\ last.args = <<IntArg(1), IntArg(2)>> => last.message = <<"1", " ", "2">>
    /\ last.args = <<StrArg(<<"n", "=">>), IntArg(10)>> =>
         last.message = <<"n", "=", "1", "0">>
    /\ last.args = <<IntArg(1), StrArg(<<"a">>), IntArg(2)>> =>
         last.message = <<"1", "a", "2">>

Wit_C8_TwoIntegers ==
  /\ IsLogCall /\ last.nformat = 1 /\ Wrote
  /\ last.args = <<IntArg(1), IntArg(2)>>
  /\ last.message = <<"1", " ", "2">>

\* C9: no Debug/Info/Warn/Error call panics, whatever sink and formatter
\* (nil included) NewLogger and the setters were given.
Claim_C9_NeverPanics ==
  (IsLogCall /\ last.op # "Fatal") =>
    (last.outcome # "panicked" /\ proc.status # "panicked")

\* C10: a passing call whose Write returns an error has issued exactly one
\* Write, leaves threshold, sink and formatter as they were, returns
\* normally for a level below FATAL and exits the process for FATAL.
Thm_C10_BestEffortWrite ==
  (IsLogCall /\ Wrote /\ last.wrote[1].err) =>
    /\ Len(last.wrote) = 1
    /\ level = last.threshold /\ output = last.sink /\ formatter = last.fmt
    /\ last.lv # FATAL => (last.outcome = "returned" /\ proc = Running)
    /\ last.lv = FATAL => (last.outcome = "exited" /\ proc = Exited(1))

\* a Fatal call whose single Write failed, the process has exited
Wit_C10_FailedFatalWrite ==
  /\ last.op = "Fatal" /\ Len(last.wrote) = 1 /\ last.wrote[1].err
  /\ proc = Exited(1)

\* the level each name of EnvLevelNames stands for: the five names in any
\* letter case, every other name for INFO
LevelOfName ==
  { <<<<>>, INFO>>,
    <<<<"d", "e", "b", "u", "g">>, DEBUG>>,
    <<<<"D", "E", "B", "U", "G">>, DEBUG>>,
    <<<<"I", "n", "f", "o">>, INFO>>,
    <<<<"w", "a", "r", "n">>, WARN>>,
    <<<<"W", "A", "R", "N">>, WARN>>,
    <<<<"e", "R", "R", "o", "R">>, ERROR>>,
    <<<<"f", "a", "t", "a", "l">>, FATAL>>,
    <<<<"F", "A", "T", "A", "L">>, FATAL>>,
    <<<<"w", "a", "r", "n", "i", "n", "g">>, INFO>>,
    <<<<"T", "R", "A", "C", "E">>, INFO>>,
    <<<<"4">>, INFO>> }

levelOfName(name) == (CHOOSE p \in LevelOfName : p[1] = name)[2]

\* C11: parseLogLevel maps the five level names, in any letter case, to
\* their level and every other string, the empty one included, to INFO;
\* LoadConfigFromEnv yields that level for LOG_LEVEL (INFO when it is unset
\* or empty) and returns no error.
Thm_C11_LevelNameParsing ==
  /\ cfg.op = "parseLogLevel" => cfg.result = levelOfName(cfg.arg)
  /\ cfg.op = "LoadConfigFromEnv" =>
       (cfg.config.Level = levelOfName(cfg.env.LOG_LEVEL) /\ ~cfg.err)

\* LOG_LEVEL=eRRoR was loaded as ERROR
Wit_C11_MixedCaseFromEnv ==
  /\ cfg.op = "LoadConfigFromEnv"
  /\ cfg.env.LOG_LEVEL = <<"e", "R", "R", "o", "R">>
  /\ cfg.config.Level = ERROR

\* C12: ApplyConfig builds the Logger with a JSONFormatter for format "json",
\* with the supplied formatter for format "custom", with the DefaultFormatter
\* and a diagnostic on os.Stderr for format "custom" without a formatter, and
\* with the DefaultFormatter for every other format; the Logger's formatter
\* is never nil.
Thm_C12_FormatterSelection ==
  cfg.op = "ApplyConfig" =>
    /\ formatter # NilFormatter
    /\ cfg.config.Format = <<"j", "s", "o", "n">> => formatter = "JSONFormatter"
    /\ (cfg.config.Format = <<"c", "u", "s", "t", "o", "m">>
        /\ cfg.config.Custom # NilFormatter) => formatter = cfg.config.Custom
    /\ (cfg.config.Format = <<"c", "u", "s", "t", "o", "m">>
        /\ cfg.config.Custom = NilFormatter) =>
         /\ formatter = "DefaultFormatter"
         /\ \E i \in 1..Len(cfg.diag) : cfg.diag[i] = CustomNilDiagnostic
    /\ cfg.config.Format \notin {<<"j", "s", "o", "n">>, <<"c", "u", "s", "t", "o", "m">>}
         => formatter = "DefaultFormatter"
    /\ ~(cfg.config.Format = <<"c", "u", "s", "t", "o", "m">>
         /\ cfg.config.Custom = NilFormatter) =>
         \A i \in 1..Len(cfg.diag) : cfg.diag[i] # CustomNilDiagnostic

\* format "custom" without a formatter was applied
Wit_C12_CustomWithoutFormatter ==
  /\ cfg.op = "ApplyConfig"
  /\ cfg.config.Format = <<"c", "u", "s", "t", "o", "m">>
  /\ cfg.config.Custom = NilFormatter
  /\ formatter = "DefaultFormatter"
  /\ cfg.diag = <<CustomNilDiagnostic>>

\* the file is an object whose level member is a JSON string and whose
\* other members have the JSON type of their field
HasLevelName(file) ==
  /\ file.kind = "object"
  /\ \E i \in 1..Len(file.members) :
       /\ ToLower(file.members[i].key) = LevelTag
       /\ file.members[i].val.kind = "string"
  /\ \A i \in 1..Len(file.members) :
       ToLower(file.members[i].key) # LevelTag =>
         ~decodeMember(DefaultConfig, file.members[i]).err

\* the level name the file gives
levelNameIn(file) ==
  file.members[CHOOSE i \in 1..Len(file.members) :
                 ToLower(file.members[i].key) = LevelTag].val.s

\* C13: a configuration file whose level field is a level name is loaded
\* without error and yields the named level (INFO for an unknown name).
Claim_C13_LevelNameInFile ==
  (cfg.op = "LoadConfigFromFile" /\ HasLevelName(cfg.file)) =>
    /\ ~cfg.err
    /\ cfg.config.Level = parseLogLevel(levelNameIn(cfg.file))

\* C14: whenever LoadConfigFromFile returns an error, the LoggerConfig it
\* returns with it equals DefaultConfig().
Claim_C14_DefaultConfigOnError ==
  (cfg.op = "LoadConfigFromFile" /\ cfg.err) => cfg.config = DefaultConfig

\* C15: a log call whose level is below the current threshold returns
\* without invoking Formatter.Format (where the built-in formatters capture
\* the call site), without a Write on any sink, and without changing a
\* field of the Logger or ending the process.
Thm_C15_FilteredCallDoesNothing ==
  [][ (last' # last /\ last'.op \in Methods /\ last'.lv < level) =>
        /\ last'.nformat = 0
        /\ last'.record = <<>>
        /\ last'.wrote = <<>>
        /\ last'.outcome = "returned"
        /\ UNCHANGED <<level, output, formatter, nwrites, proc>> ]_vars

\* an Error call dropped by threshold FATAL on a Logger that holds the
\* user's formatter and a sink
Wit_C15_FilteredWithUserFormatter ==
  /\ last.op = "Error" /\ last.threshold = FATAL /\ level = FATAL
  /\ formatter = "MyCustomFormatter" /\ output \in Sinks
  /\ last.nformat = 0
  /\ proc = Running

\* C16: in the Logger of the earlier version, a passing log call on the
\* default plain-text path that follows SetOutput(w) writes its record to w,
\* the Logger's current output, and nothing to any other sink.
Claim_C16_SetOutputRedirectsDefaultPath ==
  (IsLogCall /\ last.fmt = DefaultClosure /\ Wrote /\ ff.output \in Sinks) =>
    \A i \in 1..Len(last.wrote) : last.wrote[i].sink = ff.output

\* the call of goroutine g passed the filter and has not issued its Write
InFlight(g) == gor[g].pc \in {"format", "write", "panicked"}

\* the call of goroutine g passed the filter and ran to its end: it
\* returned or reached os.Exit
Completed(g) == gor[g].passed /\ gor[g].pc \in {"idle", "exit", "exited"}

NumInFlight ==
  (IF InFlight("g1") THEN 1 ELSE 0) + (IF InFlight("g2") THEN 1 ELSE 0)

\* C17 as stated: under any interleaving every call that passes the filter
\* produces exactly one Write, and the total number of Writes equals the
\* number of calls that passed the filter. Stated for the states in which
\* no call can take a further step without a nil formatter or sink having
\* made one fail: the process has exited, or every call has returned.
Claim_C17_WritesEqualPassedCalls ==
  (proc.status = "exited" \/ (proc = Running /\ \A g \in Goroutines : gor[g].pc = "idle")) =>
    /\ TotalWrites = CallsPassed
    /\ \A g \in Goroutines : gor[g].passed => Len(gor[g].wrote) = 1

\* C17, amended: under any interleaving of log calls with each other and
\* with the setters, a call loads the threshold, the formatter and the sink
\* at most once each and issues at most one Write; a call that does not
\* pass the filter issues none; a call that passed the filter and returned
\* or reached os.Exit issued exactly one Write, on one sink, carrying the
\* whole record of the one formatter it loaded; and the number of Writes
\* is the number of calls that passed the filter less those that have not
\* yet written, which stay short of their Write when another goroutine's
\* Fatal ends the process or a nil formatter or sink makes the call panic.
Thm_C17_OneWritePerCompletedCall ==
  /\ \A g \in Goroutines :
       LET c == gor[g]
       IN  /\ c.reads.level <= 1 /\ c.reads.formatter <= 1 /\ c.reads.output <= 1
           /\ Len(c.wrote) <= 1
           /\ ~c.passed => c.wrote = <<>>
           /\ Completed(g) =>
                /\ Len(c.wrote) = 1
                /\ c.wrote[1].sink \in Sinks
                /\ c.fmt \in Formatters
                /\ c.wrote[1].data =
                     Format(c.fmt, methodLevel(c.m), Sprint(GoArgs),
                            stackInFormat(c.fmt, c.m, GoStack))
  /\ TotalWrites + NumInFlight = CallsPassed
  /\ TotalWrites <= CallsPassed

\* two passing calls by two goroutines, with SetOutput and SetFormatter
\* between their loads: each completed with one Write, on different sinks
\* and with the records of different formatters
Wit_C17_TwoCallsTwoSinks ==
  /\ Completed("g1") /\ Completed("g2")
  /\ gor["g1"].wrote[1].sink # gor["g2"].wrote[1].sink
  /\ gor["g1"].fmt # gor["g2"].fmt
  /\ gor["g1"].m = "Info" /\ gor["g2"].m = "Info"
  /\ nwrites["buf1"] = 1 /\ nwrites["buf2"] = 1

====
